---- MODULE Spec2Model ----
(***************************************************************************)
(* The request pipeline of OpenSerpClient (src/openserp_wrapper/client.py) *)
(* as a state machine: one client, one caller, one search invocation at a  *)
(* time, taken step by step (validate, rate-limit gate, cache lookup,      *)
(* network attempts under the session's Retry policy, outcome mapping and  *)
(* cache store), with clear_cache and the passing of time in between.      *)
(*                                                                         *)
(* Spec is that pipeline.  FunSpec applies the client's pure functions     *)
(* (the cache key, the query parameters, the request URL) to arguments of  *)
(* their own; LifeSpec adds search_engines, close() and the with block;    *)
(* ConcSpec runs several threads through search on one client;             *)
(* VariantSpec calls search with requests that share a cache key.          *)
(*                                                                         *)
(* Python strings are sequences of code points, so that sorted() and       *)
(* str.join() are computed as Python computes them.                        *)
(***************************************************************************)
EXTENDS Integers, Sequences, FiniteSets, TLC

(***************************************************************************)
(* Bounds of the model.                                                    *)
(***************************************************************************)
\* The clock runs from 0 to MaxTime.
MaxTime == 2
\* The cache_ttl the client is constructed with (client.py:40 gives the
\* default, 3600; the model's client is built with a small one).
CacheTTL == 1

(***************************************************************************)
(* Strings.                                                                *)
(***************************************************************************)
\* "search:"
StrSearchColon == <<115, 101, 97, 114, 99, 104, 58>>
\* ":"
StrColon == <<58>>
\* ","
StrComma == <<44>>
\* "all"
StrAll == <<97, 108, 108>>
\* "q": a query text
StrQ == <<113>>
\* "b", "g": two engine identifiers
StrB == <<98>>
StrG == <<103>>

\* str(n) for an int n: decimal digits, a leading "-" when negative.
RECURSIVE DecDigits(_)
DecDigits(n) ==
    IF n < 10 THEN <<48 + n>> ELSE DecDigits(n \div 10) \o <<48 + (n % 10)>>

PyStrOfInt(n) == IF n < 0 THEN <<45>> \o DecDigits(0 - n) ELSE DecDigits(n)

\* Python's a < b on str: lexicographic on code points.
RECURSIVE StrLess(_, _)
StrLess(a, b) ==
    IF b = <<>> THEN FALSE
    ELSE IF a = <<>> THEN TRUE
    ELSE IF a[1] # b[1] THEN a[1] < b[1]
    ELSE StrLess(Tail(a), Tail(b))

\* Insert string s into the ascending list l, after its equals (stable).
RECURSIVE InsertSorted(_, _)
InsertSorted(s, l) ==
    IF l = <<>> THEN <<s>>
    ELSE IF StrLess(s, l[1]) THEN <<s>> \o l
    ELSE <<l[1]>> \o InsertSorted(s, Tail(l))

\* sorted(l) for a list of str.
RECURSIVE PySorted(_)
PySorted(l) ==
    IF l = <<>> THEN <<>>
    ELSE InsertSorted(l[Len(l)], PySorted(SubSeq(l, 1, Len(l) - 1)))

\* sep.join(l) for a list of str.
RECURSIVE PyJoin(_, _)
PyJoin(sep, l) ==
    IF l = <<>> THEN <<>>
    ELSE IF Len(l) = 1 THEN l[1]
    ELSE l[1] \o sep \o PyJoin(sep, Tail(l))

(***************************************************************************)
(* Requests: the arguments of one call of search.  text is a str           *)
(* (text_is_str, its code points in text) or another object (an int, its   *)
(* value in text_int); engines is None (engines_given = FALSE) or a list   *)
(* of str.                                                                 *)
(***************************************************************************)
\* An Optional[str] argument: None, or a str.
StrNone == [is_none |-> TRUE, value |-> <<>>]
StrOf(s) == [is_none |-> FALSE, value |-> s]

\* "relevance"
StrRelevance == <<114, 101, 108, 101, 118, 97, 110, 99, 101>>
\* "date"
StrDate == <<100, 97, 116, 101>>

\* The call with date_from, date_to, language and sort left at their
\* defaults.
Request(isStr, text, int, given, engines, limit, offset) ==
    [text_is_str |-> isStr, text |-> text, text_int |-> int,
     engines_given |-> given, engines |-> engines,
     limit |-> limit, offset |-> offset,
     date_from |-> StrNone, date_to |-> StrNone, language |-> StrNone,
     sort |-> StrRelevance]

\* search("q"), search("q", engines=["g", "b"], limit=5)
ValidRequests ==
    { Request(TRUE, StrQ, 0, FALSE, <<>>, 10, 0),
      Request(TRUE, StrQ, 0, TRUE, <<StrG, StrB>>, 5, 0) }

\* search(""), search(42), limit=0, limit=101, offset=-1
InvalidRequests ==
    { Request(TRUE, <<>>, 0, FALSE, <<>>, 10, 0),
      Request(FALSE, <<>>, 42, FALSE, <<>>, 10, 0),
      Request(TRUE, StrQ, 0, FALSE, <<>>, 0, 0),
      Request(TRUE, StrQ, 0, FALSE, <<>>, 101, 0),
      Request(TRUE, StrQ, 0, FALSE, <<>>, 10, 0 - 1) }

Requests == ValidRequests \cup InvalidRequests

\* bool(text): a str is falsy when empty, an int when 0.
TextTruthy(r) == IF r.text_is_str THEN r.text # <<>> ELSE r.text_int # 0

\* Validate with the offset check left out.
ValidateWithoutOffset(r) ==
    IF ~TextTruthy(r) \/ ~r.text_is_str THEN "Search text must be a non-empty string"
    ELSE IF ~(1 <= r.limit /\ r.limit <= 100) THEN "Limit must be between 1 and 100"
    ELSE "ok"

\* The three checks of search, in order: the message of the first that
\* fails, or "ok".
Validate(r) ==
    IF ~TextTruthy(r) \/ ~r.text_is_str THEN "Search text must be a non-empty string"
    ELSE IF ~(1 <= r.limit /\ r.limit <= 100) THEN "Limit must be between 1 and 100"
    ELSE IF r.offset < 0 THEN "Offset must be non-negative"
    ELSE "ok"

\* _generate_cache_key with the engines joined in the order given.
GenerateCacheKeyUnsorted(text, given, engines, limit, offset) ==
    LET engine_str == IF given /\ engines # <<>>
                      THEN PyJoin(StrComma, engines)
                      ELSE StrAll
    IN  StrSearchColon \o text \o StrColon \o engine_str \o StrColon
          \o PyStrOfInt(limit) \o StrColon \o PyStrOfInt(offset)

\* _generate_cache_key(text, engines, limit, offset)
GenerateCacheKey(text, given, engines, limit, offset) ==
    LET engine_str == IF given /\ engines # <<>>
                      THEN PyJoin(StrComma, PySorted(engines))
                      ELSE StrAll
    IN  StrSearchColon \o text \o StrColon \o engine_str \o StrColon
          \o PyStrOfInt(limit) \o StrColon \o PyStrOfInt(offset)

KeyOf(r) == GenerateCacheKey(r.text, r.engines_given, r.engines, r.limit, r.offset)

Keys == { KeyOf(r) : r \in ValidRequests }

(***************************************************************************)
(* Payloads: a parsed JSON object, as the set of its field names.  {} is   *)
(* the empty object, which Python holds to be false.                       *)
(***************************************************************************)
Payloads == { {}, {"results"} }

\* What a call hands back in Python: None, or an object.
PyNone == [is_none |-> TRUE, value |-> {}]
PyObj(v) == [is_none |-> FALSE, value |-> v]

\* bool(x) of None or of a parsed JSON object.
PyTruthy(x) == ~x.is_none /\ x.value # {}

(***************************************************************************)
(* The cache (openserp_wrapper/cache.py, not among the sources): modelled  *)
(* from the contract of section 4.1.  An entry holds a value and the       *)
(* absolute time it expires, written_at + ttl; it is dead once the clock   *)
(* exceeds that, and a lookup removes a dead entry.  A backend failure     *)
(* makes get a miss and set a no-op; neither raises.                       *)
(***************************************************************************)
NoEntry == [present |-> FALSE, value |-> {}, expiry |-> 0]

EmptyCache == [k \in Keys |-> NoEntry]

Live(c, k, t) == c[k].present /\ ~(t > c[k].expiry)

\* A get that raises when the backend fails.
CacheGetRaisesOnFailure(backendFails) == backendFails

\* Whether get / set raise to their caller when the backend fails.
CacheGetRaises(backendFails) == FALSE

CacheSetRaises(backendFails) == FALSE

\* get(key) at time t: the value returned.
CacheGet(c, k, t, backendFails) ==
    IF ~backendFails /\ Live(c, k, t) THEN PyObj(c[k].value) ELSE PyNone

\* get(key) at time t: the cache afterwards (lazy removal).
CacheAfterGet(c, k, t, backendFails) ==
    IF ~backendFails /\ c[k].present /\ ~Live(c, k, t)
    THEN [c EXCEPT ![k] = NoEntry] ELSE c

\* A set that keeps the entry that is there.
CacheAfterSetFirstWins(c, k, v, ttl, t, backendFails) ==
    IF backendFails \/ c[k].present THEN c
    ELSE [c EXCEPT ![k] = [present |-> TRUE, value |-> v, expiry |-> t + ttl]]

\* set(key, value, ttl) at time t: the cache afterwards.
CacheAfterSet(c, k, v, ttl, t, backendFails) ==
    IF backendFails THEN c
    ELSE [c EXCEPT ![k] = [present |-> TRUE, value |-> v, expiry |-> t + ttl]]

\* clear()
CacheAfterClear(c) == [k \in DOMAIN c |-> NoEntry]

\* The entries get would return at time t.
LiveView(c, t) == [k \in DOMAIN c |-> IF Live(c, k, t) THEN c[k] ELSE NoEntry]

(***************************************************************************)
(* The rate limiter (openserp_wrapper/rate_limiter.py, not among the       *)
(* sources): wait() returns, or fails with a RateLimit error.              *)
(***************************************************************************)
WaitResults == {"admitted", "RateLimit"}

(***************************************************************************)
(* What the service or the transport answers to one attempt.               *)
(***************************************************************************)
Answer(kind, status, retry_after, parses, body) ==
    [kind |-> kind, status |-> status, retry_after |-> retry_after,
     parses |-> parses, body |-> body]

NoAnswer == Answer("none", 0, FALSE, FALSE, {})

StatusAnswers ==
    { Answer("response", 200, FALSE, TRUE, p) : p \in Payloads }
    \cup { Answer("response", 200, FALSE, FALSE, {}) }
    \cup { Answer("response", s, FALSE, FALSE, {}) : s \in {404, 429, 503} }
    \cup { Answer("response", 413, TRUE, FALSE, {}) }

TransportFailures ==
    { Answer(k, 0, FALSE, FALSE, {}) :
        k \in {"connection_error", "connect_timeout", "read_timeout"} }

Answers == StatusAnswers \cup TransportFailures

(***************************************************************************)
(* The session's retry policy: Retry(total=3, backoff_factor=1,            *)
(* status_forcelist=[429, 500, 502, 503, 504]) mounted on the adapter.     *)
(* total counts the retries left; urllib3 decrements it on every failed    *)
(* attempt and gives up (MaxRetryError) when it falls below 0.             *)
(***************************************************************************)
RetryTotal == 3

StatusForcelist == {429, 500, 502, 503, 504}

\* urllib3's Retry.RETRY_AFTER_STATUS_CODES (respect_retry_after_header
\* is left at its default, True).
RetryAfterStatusCodes == {413, 429, 503}

\* IsRetry with every error status forced, not only the listed ones.
IsRetryOnAnyError(a, total) ==
    \/ a.status >= 400
    \/ (total # 0 /\ a.retry_after /\ a.status \in RetryAfterStatusCodes)

\* Retry.is_retry for a GET: is this response to be retried?
IsRetry(a, total) ==
    \/ a.status \in StatusForcelist
    \/ (total # 0 /\ a.retry_after /\ a.status \in RetryAfterStatusCodes)

\* SessionGet giving up one attempt early (total counted as attempts).
SessionGetOneShort(a, total) ==
    IF a.kind = "response"
    THEN IF IsRetry(a, total)
         THEN IF total - 1 <= 0 THEN "RetryError" ELSE "retry"
         ELSE "response"
    ELSE IF total - 1 <= 0
         THEN IF a.kind = "connect_timeout" THEN "ConnectTimeout" ELSE "ConnectionError"
         ELSE "retry"

\* What session.get does with the answer to one attempt, with `total`
\* retries left: "retry" (another attempt follows), "response" (the
\* response is returned to search), or the requests exception raised.
\* Retries exhausted on a status raise RetryError; on a connect timeout,
\* ConnectTimeout; on any other transport failure, a read timeout
\* included, ConnectionError.
SessionGet(a, total) ==
    IF a.kind = "response"
    THEN IF IsRetry(a, total)
         THEN IF total - 1 < 0 THEN "RetryError" ELSE "retry"
         ELSE "response"
    ELSE IF total - 1 < 0
         THEN IF a.kind = "connect_timeout" THEN "ConnectTimeout" ELSE "ConnectionError"
         ELSE "retry"

(***************************************************************************)
(* Outcomes of search: a payload, or one of the typed errors of            *)
(* exceptions.py (code is the machine code, "" when absent; status_code    *)
(* is 0 when absent).                                                      *)
(***************************************************************************)
Outcome(kind, payload, status_code, code) ==
    [kind |-> kind, payload |-> payload, status_code |-> status_code, code |-> code]

NoOutcome == Outcome("none", {}, 0, "")

Returned(p) == Outcome("payload", p, 0, "")

OpenSerpValidationError == Outcome("Validation", {}, 0, "")

OpenSerpTimeoutError == Outcome("Timeout", {}, 0, "")

OpenSerpConnectionError(code) == Outcome("Connection", {}, 0, code)

OpenSerpAPIError(status) == Outcome("APIError", {}, status, "")

\* Raised by a fail-fast rate limiter, and passed on by search.
OpenSerpRateLimitError == Outcome("RateLimit", {}, 0, "")

\* What a raising cache would raise, passed on by search.
OpenSerpCacheError == Outcome("Cache", {}, 0, "")

\* response.json() failing: requests' JSONDecodeError is a RequestException
\* from requests 2.27 on and is mapped to a Connection error; before, it
\* is a bare ValueError that search does not catch.
JsonErrorOutcomes == { OpenSerpConnectionError(""), Outcome("ValueError", {}, 0, "") }

\* The try block of search after session.get: the outcome for what
\* session.get did, before the cache store.  "store" stands for a parsed
\* payload that goes on to cache.set.
MapResult(got, a, jsonError) ==
    IF got = "ConnectTimeout" THEN OpenSerpTimeoutError
    ELSE IF got = "ConnectionError" THEN OpenSerpConnectionError("")
    ELSE IF got = "RetryError" THEN OpenSerpConnectionError("")
    ELSE IF a.status = 429 THEN OpenSerpConnectionError("RATE_LIMIT")
    ELSE IF a.status >= 400 THEN OpenSerpAPIError(a.status)
    ELSE IF ~a.parses THEN jsonError
    ELSE Outcome("store", a.body, 0, "")

(***************************************************************************)
(* State.                                                                  *)
(***************************************************************************)
VARIABLES
    cache,         \* self.cache: key -> entry
    now,           \* the clock
    rate_limiter,  \* whether self.rate_limiter is set
    pc,            \* where the invocation of search stands
    req,           \* its arguments
    total,         \* retries left in the running session.get
    last,          \* the answer to the latest attempt
    attempts,      \* network attempts of this invocation
    only503,       \* whether each of them before the latest was answered 503
    waits,         \* calls of rate_limiter.wait() in this invocation
    waited,        \* how the latest of them ended ("" before any)
    gets,          \* calls of cache.get in this invocation
    sets,          \* calls of cache.set in this invocation
    wrote,         \* the arguments of its cache.set: key, value, ttl
    got,           \* what its cache.get returned
    foundLive,     \* whether the cache held a live entry under its key then
    getFailed,     \* whether the cache backend failed in its cache.get
    setFailed,     \* whether the cache backend failed in its cache.set
    outcome,       \* what it hands to the caller
    cache0,        \* the cache when it began (between calls: the cache)
    served,        \* per key: the latest search answered by the network and
                   \* stored, since the last clear_cache
    probe,         \* the latest application of one of the client's pure
                   \* functions: its name, its arguments, its result
    life,          \* the session and the context-manager scope
    threads,       \* concurrent invocations of search, by thread
    written        \* what they have stored in the cache

vars == <<cache, now, rate_limiter, pc, req, total, last, attempts, only503, waits,
          waited, gets, sets, wrote, got, foundLive, getFailed, setFailed, outcome,
          cache0, served, probe, life, threads, written>>

\* The variables that the sequential pipeline leaves alone.
aux == <<probe, life, threads, written>>

NoRequest == Request(TRUE, <<>>, 0, FALSE, <<>>, 0, 0)

NoWrite == [key |-> <<>>, value |-> {}, ttl |-> 0]

NotServed == [has |-> FALSE, req |-> NoRequest, payload |-> {}, at |-> 0]

\* The variables of one invocation, before it starts.
Fresh ==
    /\ req = NoRequest
    /\ total = 0
    /\ last = NoAnswer
    /\ attempts = 0
    /\ only503 = TRUE
    /\ waits = 0
    /\ waited = ""
    /\ gets = 0
    /\ sets = 0
    /\ wrote = NoWrite
    /\ got = PyNone
    /\ foundLive = FALSE
    /\ getFailed = FALSE
    /\ setFailed = FALSE
    /\ outcome = NoOutcome

\* OpenSerpClient(cache_ttl=CacheTTL), with or without a rate limiter.
\* The session is open and no with block has been entered: scope is "out",
\* "in" or "exited"; closes counts the calls of self.session.close() and
\* explicit those of them made through close() by the caller.
Constructed == [scope |-> "out", closes |-> 0, explicit |-> 0]

\* A thread that has not called search yet.
ThreadReady == [pc |-> "ready", fetched |-> FALSE, result |-> {}, outcome |-> NoOutcome]

\* No thread is running: the client has one caller.
NoThreads == [t \in {} |-> ThreadReady]

\* Nothing has been stored by a thread: the payloads stored, the number of
\* sets completed, the value and the thread of the latest.
NothingWritten == [stored |-> {}, count |-> 0, last |-> {}, by |-> 0]

\* No pure function has been applied yet.
NoProbe == [fn |-> "", args |-> <<>>, done |-> FALSE, result |-> <<>>]

Init ==
    /\ cache = EmptyCache
    /\ now = 0
    /\ rate_limiter \in BOOLEAN
    /\ pc = "idle"
    /\ Fresh
    /\ cache0 = EmptyCache
    /\ served = [k \in Keys |-> NotServed]
    /\ probe = NoProbe
    /\ life = Constructed
    /\ threads = NoThreads
    /\ written = NothingWritten

(***************************************************************************)
(* search, step by step.                                                   *)
(***************************************************************************)
\* AfterValidation with the gate left out.
AfterValidationNoGate(limiter) == "lookup"

\* Where search goes after its validation passed.
AfterValidation(limiter) == IF limiter THEN "gate" ELSE "lookup"

\* search(r) is called: the three validation checks.
Call(r) ==
    /\ pc = "idle"
    /\ req' = r
    /\ cache0' = cache
    /\ IF Validate(r) # "ok"
       THEN pc' = "done" /\ outcome' = OpenSerpValidationError
       ELSE pc' = AfterValidation(rate_limiter) /\ outcome' = outcome
    /\ UNCHANGED <<cache, now, rate_limiter, total, last, attempts, only503, waits, waited,
                   gets, sets, wrote, got, foundLive, getFailed, setFailed, served>>
    /\ UNCHANGED aux

\* Where search goes after rate_limiter.wait() ended with w.
AfterWait(w) == IF w = "admitted" THEN "lookup" ELSE "done"

\* if self.rate_limiter: self.rate_limiter.wait()
Gate(w) ==
    /\ pc = "gate"
    /\ waits' = waits + 1
    /\ waited' = w
    /\ pc' = AfterWait(w)
    /\ outcome' = IF w = "admitted" THEN outcome ELSE OpenSerpRateLimitError
    /\ UNCHANGED <<cache, now, rate_limiter, req, total, last, attempts, only503,
                   gets, sets, wrote, got, foundLive, getFailed, setFailed,
                   cache0, served>>
    /\ UNCHANGED aux

\* if cached_result: does search take what cache.get returned as a hit?
IsHit(x) == PyTruthy(x)

\* cache_key = ...; cached_result = self.cache.get(cache_key);
\* if cached_result: return cached_result
Lookup(backendFails) ==
    /\ pc = "lookup"
    /\ LET k == KeyOf(req)
           x == CacheGet(cache, k, now, backendFails)
       IN  /\ gets' = gets + 1
           /\ getFailed' = backendFails
           /\ foundLive' = Live(cache, k, now)
           /\ cache' = CacheAfterGet(cache, k, now, backendFails)
           /\ got' = x
           /\ IF CacheGetRaises(backendFails)
              THEN pc' = "done" /\ outcome' = OpenSerpCacheError /\ total' = total
              ELSE IF IsHit(x)
              THEN pc' = "done" /\ outcome' = Returned(x.value) /\ total' = total
              ELSE pc' = "net" /\ outcome' = outcome /\ total' = RetryTotal
    /\ UNCHANGED <<now, rate_limiter, req, last, attempts, only503, waits, waited, sets,
                   wrote, setFailed, cache0, served>>
    /\ UNCHANGED aux

\* The cache key search stores a result under.
StoreKey(r) == KeyOf(r)

\* StoreTTL with the configured ttl not passed on.
StoreTTLNotConfigured == CacheTTL + 1

\* The ttl search stores a result with.
StoreTTL == CacheTTL

\* One attempt of session.get, answered by a; when it is the last, the
\* rest of the try block: outcome mapping, cache.set, return.
Attempt(a) ==
    /\ pc = "net"
    /\ attempts' = attempts + 1
    /\ only503' = (only503 /\ (attempts = 0 \/ last.status = 503))
    /\ last' = a
    /\ LET did == SessionGet(a, total)
       IN  IF did = "retry"
           THEN /\ total' = total - 1
                /\ UNCHANGED <<pc, outcome, cache, sets, wrote, setFailed, served>>
           ELSE IF did = "response" /\ a.status < 400 /\ ~a.parses
           THEN /\ pc' = "done"
                /\ \E jsonError \in JsonErrorOutcomes :
                      outcome' = MapResult(did, a, jsonError)
                /\ UNCHANGED <<total, cache, sets, wrote, setFailed, served>>
           ELSE IF MapResult(did, a, NoOutcome).kind # "store"
           THEN /\ pc' = "done"
                /\ outcome' = MapResult(did, a, NoOutcome)
                /\ UNCHANGED <<total, cache, sets, wrote, setFailed, served>>
           ELSE \E backendFails \in BOOLEAN :
                LET result == MapResult(did, a, NoOutcome).payload
                IN  /\ pc' = "done"
                    /\ sets' = sets + 1
                    /\ wrote' = [key |-> StoreKey(req), value |-> result,
                                 ttl |-> StoreTTL]
                    /\ setFailed' = backendFails
                    /\ cache' = CacheAfterSet(cache, StoreKey(req), result, StoreTTL,
                                              now, backendFails)
                    /\ outcome' = IF CacheSetRaises(backendFails)
                                  THEN OpenSerpCacheError ELSE Returned(result)
                    /\ served' = [served EXCEPT ![KeyOf(req)] =
                                    IF backendFails THEN NotServed
                                    ELSE [has |-> TRUE, req |-> req,
                                          payload |-> result, at |-> now]]
                    /\ total' = total
    /\ UNCHANGED <<now, rate_limiter, req, waits, waited, gets, got, foundLive, getFailed,
                   cache0>>
    /\ UNCHANGED aux

\* The caller has the outcome; the client is ready for the next call.
Return ==
    /\ pc = "done"
    /\ pc' = "idle"
    /\ req' = NoRequest
    /\ total' = 0
    /\ last' = NoAnswer
    /\ attempts' = 0
    /\ only503' = TRUE
    /\ waits' = 0
    /\ waited' = ""
    /\ gets' = 0
    /\ sets' = 0
    /\ wrote' = NoWrite
    /\ got' = PyNone
    /\ foundLive' = FALSE
    /\ getFailed' = FALSE
    /\ setFailed' = FALSE
    /\ outcome' = NoOutcome
    /\ cache0' = cache
    /\ UNCHANGED <<cache, now, rate_limiter, served>>
    /\ UNCHANGED aux

\* clear_cache()
ClearCache ==
    /\ pc = "idle"
    /\ cache' = CacheAfterClear(cache)
    /\ cache0' = CacheAfterClear(cache)
    /\ served' = [k \in Keys |-> NotServed]
    /\ UNCHANGED <<now, rate_limiter, pc, req, total, last, attempts, only503, waits, waited,
                   gets, sets, wrote, got, foundLive, getFailed, setFailed,
                   outcome>>
    /\ UNCHANGED aux

\* Time passes: between calls, and while search is in its network step
\* (the request in flight, the backoff sleep between attempts).
Tick ==
    /\ pc \in {"idle", "net"}
    /\ now < MaxTime
    /\ now' = now + 1
    /\ UNCHANGED <<cache, rate_limiter, pc, req, total, last, attempts, only503, waits, waited,
                   gets, sets, wrote, got, foundLive, getFailed, setFailed,
                   outcome, cache0, served>>
    /\ UNCHANGED aux

Next ==
    \/ \E r \in Requests : Call(r)
    \/ \E w \in WaitResults : Gate(w)
    \/ \E f \in BOOLEAN : Lookup(f)
    \/ \E a \in Answers : Attempt(a)
    \/ Return
    \/ ClearCache
    \/ Tick

Spec == Init /\ [][Next]_vars

(***************************************************************************)
(* Properties.                                                             *)
(***************************************************************************)
\* An invocation is under way or has just ended.
Invoked == pc # "idle"

\* Its arguments break the precondition of search: text empty or not a
\* string, limit outside [1,100], offset negative.
BadArguments(r) ==
    \/ ~r.text_is_str
    \/ r.text = <<>>
    \/ r.limit < 1
    \/ r.limit > 100
    \/ r.offset < 0

\* C1: a call of search whose text is empty or not a string, whose limit is
\* outside [1,100] or whose offset is negative ends with a Validation
\* error; in that call rate_limiter.wait() is not invoked, the cache is
\* neither read nor written (and is left as it was), and no network
\* request is issued.
C1_InvalidArgumentsTouchNothing ==
    (Invoked /\ BadArguments(req)) =>
        /\ pc = "done"
        /\ outcome = OpenSerpValidationError
        /\ waits = 0
        /\ gets = 0
        /\ sets = 0
        /\ attempts = 0
        /\ cache = cache0

\* C1, witness: with a rate limiter configured and an entry in the cache, a
\* call with a negative offset has ended with the Validation error.
C1_Witness ==
    /\ pc = "done"
    /\ req.offset < 0
    /\ outcome.kind = "Validation"
    /\ rate_limiter
    /\ \E k \in Keys : cache[k].present

\* The invocation repeats, within the TTL and with no clear_cache since, a
\* request that the network answered and search stored; neither it nor the
\* cache backend has failed before the network step.
RepeatsServed ==
    /\ pc \in {"net", "done"}
    /\ gets = 1
    /\ ~getFailed
    /\ sets = 0
    /\ served[KeyOf(req)].has
    /\ served[KeyOf(req)].req = req
    /\ now < served[KeyOf(req)].at + CacheTTL

\* C2: idempotence.  When search has succeeded and the same request is
\* issued again on the same client before the TTL elapses, with no
\* clear_cache in between, the second call issues no network request and
\* returns the payload the first call returned.
C2_RepeatServedFromCache ==
    RepeatsServed =>
        /\ pc = "done"
        /\ attempts = 0
        /\ outcome = Returned(served[KeyOf(req)].payload)

\* C3: when the cache lookup of search finds a live entry under the
\* request's cache key, search returns exactly the stored payload, issues
\* no network request and performs no cache write.
C3_LiveEntryIsReturned ==
    (pc \in {"net", "done"} /\ gets = 1 /\ ~getFailed /\ foundLive) =>
        /\ pc = "done"
        /\ outcome = Returned(cache0[KeyOf(req)].value)
        /\ attempts = 0
        /\ sets = 0

\* The latest attempt was answered by a response with this status.
Answered(status) == last.kind = "response" /\ last.status = status

\* The latest attempt was answered by a parseable success response.
AnsweredOk == Answered(200) /\ last.parses

TransportFailed == last.kind \in {"connection_error", "connect_timeout", "read_timeout"}

\* A further attempt is to follow the latest one.
Retrying == pc = "net" /\ attempts > 0

\* C5, as claimed: a further attempt happens only after a response with
\* status in {429, 500, 502, 503, 504} or a transport-level failure; a
\* response with any other status ends the network step with no retry.
C5_RetryOnlyOnListedStatus ==
    Retrying => (TransportFailed \/ last.status \in {429, 500, 502, 503, 504})

\* C5, amended: a further attempt happens only after a response with
\* status in {429, 500, 502, 503, 504}, after a 413 response that carries
\* a Retry-After header, or after a transport-level failure (connection
\* failure or timeout); a response with any other status ends the network
\* step after that attempt with no retry.
C5_RetryOnlyWhenRetryable ==
    /\ Retrying =>
          \/ TransportFailed
          \/ last.status \in {429, 500, 502, 503, 504}
          \/ (last.status = 413 /\ last.retry_after)
    /\ (attempts > 0 /\ last.kind = "response"
          /\ last.status \notin {429, 500, 502, 503, 504}
          /\ ~(last.status = 413 /\ last.retry_after)) => pc = "done"

\* C5, witness: a 503 was retried, and the 404 that answered the second
\* attempt ended the network step.
C5_Witness ==
    /\ pc = "done"
    /\ attempts = 2
    /\ only503
    /\ Answered(404)

\* C6: outcome mapping.  A final response with status >= 400 other than
\* 429 (500, 502, 503, 504 after the retries included) ends the call with
\* an APIError carrying that status; a timeout of the network step, with a
\* Timeout error; any other transport failure, with a Connection error; a
\* payload is returned only for a final response below 400 that parses.
C6_OutcomeMapping ==
    (pc = "done" /\ attempts > 0) =>
        /\ (last.kind = "response" /\ last.status >= 400 /\ last.status # 429) =>
               outcome = OpenSerpAPIError(last.status)
        /\ (last.kind \in {"connect_timeout", "read_timeout"}) =>
               outcome.kind = "Timeout"
        /\ (last.kind = "connection_error") => outcome.kind = "Connection"
        /\ (outcome.kind = "payload") =>
               (last.kind = "response" /\ last.status < 400 /\ last.parses)

\* C7: when the service's final answer to a search is status 429, the call
\* ends with a Connection error whose machine code is RATE_LIMIT, while
\* the Connection error of a generic transport failure carries no code.
C7_FinalRateLimitHasCode ==
    (pc = "done" /\ attempts > 0) =>
        /\ Answered(429) => outcome = OpenSerpConnectionError("RATE_LIMIT")
        /\ (TransportFailed /\ outcome.kind = "Connection") => outcome.code = ""

\* The invocation has ended with a typed error.
EndedInError ==
    /\ pc = "done"
    /\ outcome.kind \in {"Validation", "RateLimit", "Timeout", "Connection", "APIError"}

\* The invocation has ended with the payload of a network response.
EndedInNetworkSuccess == pc = "done" /\ attempts > 0 /\ outcome.kind = "payload"

\* C8: search writes the cache on success only.  A successful network
\* response causes exactly one cache write, of the returned payload,
\* unchanged, under the request's cache key with the configured TTL, and
\* the other keys are left alone; an invocation that ends in a typed error
\* (or is served from the cache) writes nothing and leaves the contents of
\* the cache as they were.
C8_CacheWrittenOnlyOnSuccess ==
    /\ EndedInNetworkSuccess =>
          /\ sets = 1
          /\ outcome.payload = last.body
          /\ wrote = [key |-> KeyOf(req), value |-> last.body, ttl |-> CacheTTL]
          /\ ~setFailed =>
                cache[KeyOf(req)] =
                    [present |-> TRUE, value |-> last.body, expiry |-> now + CacheTTL]
          /\ \A k \in Keys \ {KeyOf(req)} :
                LiveView(cache, now)[k] = LiveView(cache0, now)[k]
    /\ (EndedInError \/ (pc = "done" /\ attempts = 0)) =>
          /\ sets = 0
          /\ LiveView(cache, now) = LiveView(cache0, now)
    /\ (pc # "done") => sets = 0

\* C8, witness: a network success has overwritten, with another payload,
\* the entry the cache held under the request's key.
C8_Witness ==
    /\ EndedInNetworkSuccess
    /\ ~setFailed
    /\ cache0[KeyOf(req)].present
    /\ cache0[KeyOf(req)].value # outcome.payload
    /\ cache[KeyOf(req)].value = outcome.payload

C10_GateBeforeCacheAndNetwork ==
    (Invoked /\ ~BadArguments(req)) =>
        IF rate_limiter
        THEN /\ (pc = "gate") <=> (waits = 0)
             /\ (pc # "gate") => (waits = 1)
             /\ (gets > 0 \/ attempts > 0 \/ sets > 0) => (waits = 1 /\ waited = "admitted")
             /\ (waited = "RateLimit") =>
                   /\ pc = "done"
                   /\ outcome = OpenSerpRateLimitError
                   /\ gets = 0
                   /\ attempts = 0
                   /\ sets = 0
                   /\ cache = cache0
             /\ (waited = "admitted") => (outcome.kind # "RateLimit" /\ pc # "gate")
        ELSE /\ waits = 0
             /\ pc \in {"lookup", "net", "done"}
             /\ (pc = "lookup") <=> (gets = 0)
             /\ outcome.kind # "RateLimit"

\* C10, witness: with a rate limiter configured, a call admitted by its
\* one wait has been served from the cache.
C10_Witness ==
    /\ rate_limiter
    /\ pc = "done"
    /\ waits = 1
    /\ gets = 1
    /\ attempts = 0
    /\ outcome.kind = "payload"

(***************************************************************************)
(* The pure functions of the client, applied to arguments of their own.    *)
(* _generate_cache_key runs after the validation of search, so its text is *)
(* a non-empty str, its limit is in 1..100 and its offset is not negative. *)
(***************************************************************************)
MaxEngines == 2

StrQColonB == StrQ \o StrColon \o StrB
StrBColonG == StrB \o StrColon \o StrG
StrBCommaG == StrB \o StrComma \o StrG

\* "q", "q:b"
KeyTexts == { StrQ, StrQColonB }

\* "b", "g", "b:g", "b,g", "all"
EngineIds == { StrB, StrG, StrBColonG, StrBCommaG, StrAll }

\* The lists of at most MaxEngines engine ids.
EngineLists == UNION { [1..n -> EngineIds] : n \in 0..MaxEngines }

KeyLimits == { 5, 10 }

KeyOffsets == { 0, 10 }

\* The arguments of _generate_cache_key.
KeyArgs ==
    { [text |-> text, engines_given |-> given,
       engines |-> IF given THEN engines ELSE <<>>,
       limit |-> limit, offset |-> offset] :
        text \in KeyTexts, given \in BOOLEAN, engines \in EngineLists,
        limit \in KeyLimits, offset \in KeyOffsets }

(***************************************************************************)
(* The query parameters of the search request.  An optional str argument   *)
(* is None or a str; the code tests it by truth, so the empty str counts   *)
(* as not given.                                                           *)
(***************************************************************************)
\* bool(x) for an Optional[str].
StrTruthy(x) == ~x.is_none /\ x.value # <<>>

\* ".."
StrDotDot == <<46, 46>>
\* "20240101"
StrDateA == <<50, 48, 50, 52, 48, 49, 48, 49>>
\* "20240201"
StrDateB == <<50, 48, 50, 52, 48, 50, 48, 49>>
\* "en"
StrEn == <<101, 110>>
\* The arguments of search that the parameters are built from.
ParamArgs ==
    { [text |-> StrQ, engines_given |-> e.given, engines |-> e.list,
       limit |-> 10, offset |-> 0, date_from |-> df, date_to |-> dt,
       language |-> lang, sort |-> sort] :
        e \in { [given |-> FALSE, list |-> <<>>], [given |-> TRUE, list |-> <<>>],
                 [given |-> TRUE, list |-> <<StrG, StrB>>] },
        df \in { StrNone, StrOf(<<>>), StrOf(StrDateA) },
        dt \in { StrNone, StrOf(<<>>), StrOf(StrDateB) },
        lang \in { StrNone, StrOf(<<>>), StrOf(StrEn) },
        sort \in { StrRelevance, StrDate } }

\* The names of the date parameters, with each bound sent on its own.
DateParamsBothSides(a) ==
    (IF StrTruthy(a.date_from) THEN {"date_from"} ELSE {})
      \cup (IF StrTruthy(a.date_to) THEN {"date_to"} ELSE {})

\* The names of the date parameters: the if / elif / elif of search.
DateParams(a) ==
    IF StrTruthy(a.date_from) /\ StrTruthy(a.date_to) THEN {"date"}
    ELSE IF StrTruthy(a.date_from) THEN {"date_from"}
    ELSE IF StrTruthy(a.date_to) THEN {"date_to"}
    ELSE {}

\* params, as search builds it: a dict from parameter names to values.
BuildParams(a) ==
    LET names == {"text", "limit", "offset", "sort"}
                   \cup (IF a.engines_given /\ a.engines # <<>>
                         THEN {"engines"} ELSE {})
                   \cup DateParams(a)
                   \cup (IF StrTruthy(a.language) THEN {"lang"} ELSE {})
    IN  [n \in names |->
           CASE n = "text" -> a.text
             [] n = "limit" -> a.limit
             [] n = "offset" -> a.offset
             [] n = "sort" -> a.sort
             [] n = "engines" -> PyJoin(StrComma, a.engines)
             [] n = "date" -> a.date_from.value \o StrDotDot \o a.date_to.value
             [] n = "date_from" -> a.date_from.value
             [] n = "date_to" -> a.date_to.value
             [] n = "lang" -> a.language.value]

(***************************************************************************)
(* The URL of the search request: urljoin(self.base_url, "/mega/search"),  *)
(* self.base_url being the configured URL with its trailing slashes        *)
(* stripped.  urljoin with a reference that begins with "/" keeps the      *)
(* scheme and the authority of the base and replaces its path.             *)
(***************************************************************************)
\* "/"
StrSlash == <<47>>
\* "://"
StrSchemeSep == <<58, 47, 47>>
\* "/mega/search"
StrMegaSearch == <<47, 109, 101, 103, 97, 47, 115, 101, 97, 114, 99, 104>>
\* "http://h"
StrHttpH == <<104, 116, 116, 112, 58, 47, 47, 104>>
\* "/api"
StrApi == <<47, 97, 112, 105>>

\* "http://h", "http://h/", "http://h//", "http://h/api", "http://h/api/"
BaseUrls ==
    { StrHttpH, StrHttpH \o StrSlash, StrHttpH \o StrSlash \o StrSlash,
      StrHttpH \o StrApi, StrHttpH \o StrApi \o StrSlash }

\* s.rstrip("/")
RECURSIVE RStripSlash(_)
RStripSlash(s) ==
    IF s # <<>> /\ s[Len(s)] = StrSlash[1]
    THEN RStripSlash(SubSeq(s, 1, Len(s) - 1))
    ELSE s

\* Where the authority of the URL s ends: the index of the first "/" after
\* "://", or Len(s) + 1 when there is none.
AuthorityEnd(s) ==
    LET sep == CHOOSE i \in 1..Len(s) :
                   /\ i + 2 <= Len(s)
                   /\ SubSeq(s, i, i + 2) = StrSchemeSep
                   /\ \A j \in 1..(i - 1) : SubSeq(s, j, j + 2) # StrSchemeSep
        after == { i \in (sep + 3)..Len(s) : s[i] = StrSlash[1] }
    IN  IF after = {} THEN Len(s) + 1
        ELSE CHOOSE i \in after : \A j \in after : i <= j

\* urljoin(base, path) for a path that begins with "/".
UrlJoin(base, path) == SubSeq(base, 1, AuthorityEnd(base) - 1) \o path

\* The URL that search requests, for the client built with base_url.
SearchUrl(base_url) == UrlJoin(RStripSlash(base_url), StrMegaSearch)

\* The function fn is about to be applied to args.
Applying(fn, args) == [fn |-> fn, args |-> args, done |-> FALSE, result |-> <<>>]

FunInit ==
    /\ cache = EmptyCache
    /\ now = 0
    /\ rate_limiter = FALSE
    /\ pc = "idle"
    /\ Fresh
    /\ cache0 = EmptyCache
    /\ served = [k \in Keys |-> NotServed]
    /\ probe \in { Applying("_generate_cache_key", a) : a \in KeyArgs }
                 \cup { Applying("params", a) : a \in ParamArgs }
                 \cup { Applying("url", [base_url |-> b]) : b \in BaseUrls }
    /\ life = Constructed
    /\ threads = NoThreads
    /\ written = NothingWritten

\* self._generate_cache_key(text, engines, limit, offset) is applied.
ProbeKey ==
    /\ probe.fn = "_generate_cache_key"
    /\ ~probe.done
    /\ probe' = [probe EXCEPT
                   !.done = TRUE,
                   !.result = GenerateCacheKey(probe.args.text,
                                               probe.args.engines_given,
                                               probe.args.engines,
                                               probe.args.limit,
                                               probe.args.offset)]
    /\ UNCHANGED <<cache, now, rate_limiter, pc, req, total, last, attempts,
                   only503, waits, waited, gets, sets, wrote, got, foundLive,
                   getFailed, setFailed, outcome, cache0, served,
                   life, threads, written>>

\* search builds the parameters of its request.
ProbeParams ==
    /\ probe.fn = "params"
    /\ ~probe.done
    /\ probe' = [probe EXCEPT !.done = TRUE, !.result = BuildParams(probe.args)]
    /\ UNCHANGED <<cache, now, rate_limiter, pc, req, total, last, attempts,
                   only503, waits, waited, gets, sets, wrote, got, foundLive,
                   getFailed, setFailed, outcome, cache0, served,
                   life, threads, written>>

\* search computes the URL of its request.
ProbeUrl ==
    /\ probe.fn = "url"
    /\ ~probe.done
    /\ probe' = [probe EXCEPT !.done = TRUE,
                              !.result = SearchUrl(probe.args.base_url)]
    /\ UNCHANGED <<cache, now, rate_limiter, pc, req, total, last, attempts,
                   only503, waits, waited, gets, sets, wrote, got, foundLive,
                   getFailed, setFailed, outcome, cache0, served,
                   life, threads, written>>

FunNext ==
    \/ ProbeKey
    \/ ProbeParams
    \/ ProbeUrl

FunSpec == FunInit /\ [][FunNext]_vars

\* The rearrangements of the list l.
Rearrangements(l) ==
    IF l = <<>> THEN { <<>> }
    ELSE { [i \in 1..Len(l) |-> l[f[i]]] : f \in Permutations(1..Len(l)) }

\* The rearrangement of l in ascending order.
Ascending(l) ==
    CHOOSE s \in Rearrangements(l) :
        \A i \in 1..(Len(s) - 1) : ~StrLess(s[i + 1], s[i])

ProbedKey == probe.fn = "_generate_cache_key" /\ probe.done

\* C11: the cache key does not depend on the order in which the engines are
\* listed: every rearrangement of the engine list gives the key that was
\* computed.  The key is "search:", the text, the engine part, the limit and
\* the offset, separated by colons; the engine part is "all" when there is
\* no engine filter (None or an empty list) and otherwise the engine ids in
\* ascending order, joined with commas.
C11_KeyIgnoresEngineOrder ==
    ProbedKey =>
        LET a == probe.args
            part == IF ~a.engines_given \/ a.engines = <<>> THEN StrAll
                    ELSE PyJoin(StrComma, Ascending(a.engines))
        IN  /\ \A p \in Rearrangements(a.engines) :
                   GenerateCacheKey(a.text, a.engines_given, p, a.limit, a.offset)
                     = probe.result
            /\ probe.result = StrSearchColon \o a.text \o StrColon \o part
                                 \o StrColon \o PyStrOfInt(a.limit)
                                 \o StrColon \o PyStrOfInt(a.offset)

\* A key was computed for two engines listed in descending order.
C11_Witness ==
    /\ ProbedKey
    /\ probe.args.engines_given
    /\ Len(probe.args.engines) = 2
    /\ StrLess(probe.args.engines[2], probe.args.engines[1])
    /\ probe.result = StrSearchColon \o StrQ \o StrColon \o StrB \o StrComma
                         \o StrG \o StrColon \o PyStrOfInt(10) \o StrColon
                         \o PyStrOfInt(0)

ProbedParams == probe.fn = "params" /\ probe.done

\* A date bound is given when it is a non-empty str.
Given(x) == ~x.is_none /\ x.value # <<>>

\* C12: of the parameters date, date_from and date_to at most one is sent:
\* with both bounds given, date alone, as "{date_from}..{date_to}"; with one
\* bound given, that bound's parameter alone; with none given, none.
C12_DateRangeSerialization ==
    ProbedParams =>
        LET a == probe.args
            p == probe.result
            D == DOMAIN p \cap {"date", "date_from", "date_to"}
        IN  /\ (Given(a.date_from) /\ Given(a.date_to)) =>
                   /\ D = {"date"}
                   /\ p["date"] = a.date_from.value \o <<46, 46>> \o a.date_to.value
            /\ (Given(a.date_from) /\ ~Given(a.date_to)) =>
                   D = {"date_from"} /\ p["date_from"] = a.date_from.value
            /\ (~Given(a.date_from) /\ Given(a.date_to)) =>
                   D = {"date_to"} /\ p["date_to"] = a.date_to.value
            /\ (~Given(a.date_from) /\ ~Given(a.date_to)) => D = {}
            /\ Cardinality(D) <= 1

\* The parameters were built for date_from="20240101", date_to="20240201".
C12_Witness ==
    /\ ProbedParams
    /\ probe.args.date_from = StrOf(StrDateA)
    /\ probe.args.date_to = StrOf(StrDateB)
    /\ "date" \in DOMAIN probe.result
    /\ Len(probe.result["date"]) = 18

ProbedUrl == probe.fn = "url" /\ probe.done

\* The string s without its trailing "/" characters.
WithoutTrailingSlashes(s) ==
    LET n == CHOOSE k \in 0..Len(s) :
                 /\ \A i \in (k + 1)..Len(s) : s[i] = 47
                 /\ k > 0 => s[k] # 47
    IN  SubSeq(s, 1, n)

\* C15: the search request goes to the configured base URL, its trailing
\* slashes stripped, followed by "/mega/search", whatever the base URL: one
\* with a trailing slash and one with a path component included.
C15_RequestUrl ==
    ProbedUrl =>
        probe.result = WithoutTrailingSlashes(probe.args.base_url) \o StrMegaSearch

(***************************************************************************)
(* The client's lifetime: search and search_engines calls, close(), and    *)
(* a with block around them.  session.get after session.close() opens the  *)
(* pool again, so the calls go on as before.                               *)
(***************************************************************************)
MaxCloses == 2

\* search("q"), search("")
LifeRequests ==
    { Request(TRUE, StrQ, 0, FALSE, <<>>, 10, 0),
      Request(TRUE, <<>>, 0, FALSE, <<>>, 10, 0) }

\* The engine ids that the service lists.
EngineNames == { "google", "bing" }

\* What /engines is answered: as for a search, or an object with engines.
EnginesAnswers == Answers \cup { Answer("response", 200, FALSE, TRUE, {"engines"}) }

\* EnginesResult with the error statuses mapped as search maps them.
EnginesResultAsSearch(did, a, isObject) ==
    IF did # "response" THEN OpenSerpConnectionError("")
    ELSE IF a.status >= 400 THEN OpenSerpAPIError(a.status)
    ELSE IF ~a.parses \/ ~isObject THEN OpenSerpConnectionError("")
    ELSE Returned(IF "engines" \in a.body THEN EngineNames ELSE {})

\* The try block of search_engines after session.get: raise_for_status(),
\* json(), .get("engines", []); whatever is raised becomes a Connection
\* error.  isObject: the parsed body is a JSON object (anything else has no
\* .get).  The list returned is held as the set of its engine ids.
EnginesResult(did, a, isObject) ==
    IF did # "response" THEN OpenSerpConnectionError("")
    ELSE IF a.status >= 400 THEN OpenSerpConnectionError("")
    ELSE IF ~a.parses \/ ~isObject THEN OpenSerpConnectionError("")
    ELSE Returned(IF "engines" \in a.body THEN EngineNames ELSE {})

\* search_engines() is called.
EnginesCall ==
    /\ pc = "idle"
    /\ pc' = "engines"
    /\ total' = RetryTotal
    /\ cache0' = cache
    /\ UNCHANGED <<cache, now, rate_limiter, req, last, attempts, only503, waits,
                   waited, gets, sets, wrote, got, foundLive, getFailed,
                   setFailed, outcome, served>>
    /\ UNCHANGED aux

\* One attempt of its session.get, answered by a.
EnginesAttempt(a) ==
    /\ pc = "engines"
    /\ attempts' = attempts + 1
    /\ only503' = (only503 /\ (attempts = 0 \/ last.status = 503))
    /\ last' = a
    /\ LET did == SessionGet(a, total)
       IN  IF did = "retry"
           THEN /\ total' = total - 1
                /\ UNCHANGED <<pc, outcome>>
           ELSE /\ pc' = "engines_done"
                /\ total' = total
                /\ \E isObject \in BOOLEAN :
                      outcome' = EnginesResult(did, a, isObject)
    /\ UNCHANGED <<cache, now, rate_limiter, req, waits, waited, gets, sets,
                   wrote, got, foundLive, getFailed, setFailed, cache0, served>>
    /\ UNCHANGED aux

\* The caller has the list or the error.
EnginesReturn ==
    /\ pc = "engines_done"
    /\ pc' = "idle"
    /\ total' = 0
    /\ last' = NoAnswer
    /\ attempts' = 0
    /\ only503' = TRUE
    /\ outcome' = NoOutcome
    /\ UNCHANGED <<cache, now, rate_limiter, req, waits, waited, gets, sets,
                   wrote, got, foundLive, getFailed, setFailed, cache0, served>>
    /\ UNCHANGED aux

\* close(), called by the caller between two calls.
Close ==
    /\ pc = "idle"
    /\ life.closes + (IF life.scope = "in" THEN 1 ELSE 0) < MaxCloses
    /\ life' = [life EXCEPT !.closes = @ + 1, !.explicit = @ + 1]
    /\ UNCHANGED <<cache, now, rate_limiter, pc, req, total, last, attempts,
                   only503, waits, waited, gets, sets, wrote, got, foundLive,
                   getFailed, setFailed, outcome, cache0, served,
                   probe, threads, written>>

\* __enter__: the with block begins.
Enter ==
    /\ pc = "idle"
    /\ life.scope = "out"
    /\ life.closes < MaxCloses
    /\ life' = [life EXCEPT !.scope = "in"]
    /\ UNCHANGED <<cache, now, rate_limiter, pc, req, total, last, attempts,
                   only503, waits, waited, gets, sets, wrote, got, foundLive,
                   getFailed, setFailed, outcome, cache0, served,
                   probe, threads, written>>

\* __exit__: the with block ends, at its end or with the error that the
\* call just made has raised.
Exit ==
    /\ pc \in {"idle", "done", "engines_done"}
    /\ life.scope = "in"
    /\ life' = [life EXCEPT !.scope = "exited", !.closes = @ + 1]
    /\ UNCHANGED <<cache, now, rate_limiter, pc, req, total, last, attempts,
                   only503, waits, waited, gets, sets, wrote, got, foundLive,
                   getFailed, setFailed, outcome, cache0, served,
                   probe, threads, written>>

LifeNext ==
    \/ \E r \in LifeRequests : Call(r)
    \/ \E w \in WaitResults : Gate(w)
    \/ \E f \in BOOLEAN : Lookup(f)
    \/ \E a \in Answers : Attempt(a)
    \/ Return
    \/ EnginesCall
    \/ \E a \in EnginesAnswers : EnginesAttempt(a)
    \/ EnginesReturn
    \/ Close
    \/ Enter
    \/ Exit

LifeSpec == Init /\ [][LifeNext]_vars

InEngines == pc \in {"engines", "engines_done"}

\* The latest answer to search_engines is a failure: a transport failure,
\* an error status, or a body that does not parse.
EnginesFailed ==
    last.kind # "response" \/ last.status >= 400 \/ ~last.parses

\* C13: search_engines never calls cache.get, cache.set or
\* rate_limiter.wait and leaves the cache as it was, however it ends; it
\* ends with the list or with a Connection error, with a Connection error
\* whenever the answer is a failure, and with the empty list when the answer
\* is an object without the engines field.
C13_EnginesOutsideCacheAndGate ==
    InEngines =>
        /\ gets = 0 /\ sets = 0 /\ waits = 0
        /\ cache = cache0
        /\ pc = "engines_done" =>
              /\ outcome.kind \in {"payload", "Connection"}
              /\ EnginesFailed => outcome.kind = "Connection"
              /\ (outcome.kind = "payload" /\ "engines" \notin last.body)
                    => outcome.payload = {}
              /\ (outcome.kind = "payload" /\ "engines" \in last.body)
                    => outcome.payload = EngineNames

\* search_engines has ended on a 404 with a cache that holds an entry and
\* a rate limiter configured.
C13_Witness ==
    /\ pc = "engines_done"
    /\ last.status = 404
    /\ outcome.kind = "Connection"
    /\ rate_limiter
    /\ cache # EmptyCache

\* C14: the session is closed once over the lifetime of the client: when
\* the with block has been left, session.close() has been performed once
\* and not a second time, an explicit close() inside or around the block
\* included.
C14_SessionClosedExactlyOnce ==
    life.scope = "exited" => life.closes = 1

(***************************************************************************)
(* Several threads call search with one request on one client that has no  *)
(* rate limiter.  Each call of cache.get and cache.set is one step (the    *)
(* in-memory cache, whose backend does not fail); session.get is one step, *)
(* taken at its last attempt.                                              *)
(***************************************************************************)
MaxThreads == 3

Threads == 1..MaxThreads

\* search("q")
ConcRequest == Request(TRUE, StrQ, 0, FALSE, <<>>, 10, 0)

ConcInit ==
    /\ cache = EmptyCache
    /\ now = 0
    /\ rate_limiter = FALSE
    /\ pc = "idle"
    /\ Fresh
    /\ cache0 = EmptyCache
    /\ served = [k \in Keys |-> NotServed]
    /\ probe = NoProbe
    /\ life = Constructed
    /\ threads = [t \in Threads |-> ThreadReady]
    /\ written = NothingWritten

\* Thread t calls search: validation, and no gate.
ThreadCall(t) ==
    /\ threads[t].pc = "ready"
    /\ threads' = [threads EXCEPT ![t].pc =
                      IF Validate(ConcRequest) # "ok" THEN "done"
                      ELSE AfterValidation(rate_limiter)]
    /\ UNCHANGED <<cache, now, rate_limiter, pc, req, total, last, attempts,
                   only503, waits, waited, gets, sets, wrote, got, foundLive,
                   getFailed, setFailed, outcome, cache0, served,
                   probe, life, written>>

\* Its cache.get, and the return of what was found.
ThreadLookup(t) ==
    /\ threads[t].pc = "lookup"
    /\ LET k == StoreKey(ConcRequest)
           x == CacheGet(cache, k, now, FALSE)
       IN  /\ cache' = CacheAfterGet(cache, k, now, FALSE)
           /\ threads' = [threads EXCEPT ![t] =
                            IF IsHit(x)
                            THEN [@ EXCEPT !.pc = "done",
                                           !.outcome = Returned(x.value)]
                            ELSE [@ EXCEPT !.pc = "net"]]
    /\ UNCHANGED <<now, rate_limiter, pc, req, total, last, attempts,
                   only503, waits, waited, gets, sets, wrote, got, foundLive,
                   getFailed, setFailed, outcome, cache0, served,
                   probe, life, written>>

\* Its session.get, answered by a at the last attempt, and the outcome
\* mapping up to cache.set.
ThreadGet(t, a) ==
    /\ threads[t].pc = "net"
    /\ LET did == SessionGet(a, 0)
       IN  \E jsonError \in JsonErrorOutcomes :
             LET m == MapResult(did, a, jsonError)
             IN  threads' = [threads EXCEPT ![t] =
                               IF m.kind = "store"
                               THEN [@ EXCEPT !.pc = "store", !.fetched = TRUE,
                                              !.result = m.payload]
                               ELSE [@ EXCEPT !.pc = "done", !.outcome = m]]
    /\ UNCHANGED <<cache, now, rate_limiter, pc, req, total, last, attempts,
                   only503, waits, waited, gets, sets, wrote, got, foundLive,
                   getFailed, setFailed, outcome, cache0, served,
                   probe, life, written>>

\* Its cache.set, and the return of the result.
ThreadStore(t) ==
    /\ threads[t].pc = "store"
    /\ cache' = CacheAfterSet(cache, StoreKey(ConcRequest), threads[t].result,
                              StoreTTL, now, FALSE)
    /\ written' = [stored |-> written.stored \cup {threads[t].result},
                   count |-> written.count + 1,
                   last |-> threads[t].result,
                   by |-> t]
    /\ threads' = [threads EXCEPT ![t].pc = "done",
                                  ![t].outcome = Returned(threads[t].result)]
    /\ UNCHANGED <<now, rate_limiter, pc, req, total, last, attempts,
                   only503, waits, waited, gets, sets, wrote, got, foundLive,
                   getFailed, setFailed, outcome, cache0, served,
                   probe, life>>

ConcNext ==
    \/ \E t \in Threads : ThreadCall(t)
    \/ \E t \in Threads : ThreadLookup(t)
    \/ \E t \in Threads, a \in Answers : ThreadGet(t, a)
    \/ \E t \in Threads : ThreadStore(t)

ConcSpec == ConcInit /\ [][ConcNext]_vars

AllDone == \A t \in Threads : threads[t].pc = "done"

GotPayload(t) == threads[t].pc = "done" /\ threads[t].outcome.kind = "payload"

\* C16: in every interleaving of searches with one key, each search that
\* returns a payload returns the one of its own network response or one
\* that a search has stored under the key before; when all have finished,
\* the cache holds under the key the payload of the latest set (nothing if
\* there was no set), and that payload was returned by some search.
C16_ConcurrentSameKey ==
    LET k == KeyOf(ConcRequest)
    IN  /\ \A t \in Threads :
              GotPayload(t) =>
                  \/ threads[t].fetched
                       /\ threads[t].outcome.payload = threads[t].result
                  \/ threads[t].outcome.payload \in written.stored
        /\ AllDone =>
              /\ written.count = 0 => ~cache[k].present
              /\ written.count > 0 =>
                    /\ cache[k].present
                    /\ cache[k].value = written.last
                    /\ \E t \in Threads :
                          GotPayload(t) /\ threads[t].outcome.payload = cache[k].value

\* Two searches ran side by side, both missed, fetched different payloads
\* and stored them, thread 1 last.
C16_Witness ==
    /\ AllDone
    /\ written.count = 2
    /\ threads[1].fetched /\ threads[2].fetched
    /\ threads[1].result # threads[2].result
    /\ written.by = 1
    /\ cache[KeyOf(ConcRequest)].value = threads[1].result

(***************************************************************************)
(* Searches that differ in the arguments that the cache key leaves out.    *)
(***************************************************************************)
\* search("q"), search("q", sort="date"), search("q", language="en"),
\* search("q", date_from="20240101", date_to="20240201")
VariantRequests ==
    LET q == Request(TRUE, StrQ, 0, FALSE, <<>>, 10, 0)
    IN  { q,
          [q EXCEPT !.sort = StrDate],
          [q EXCEPT !.language = StrOf(StrEn)],
          [q EXCEPT !.date_from = StrOf(StrDateA), !.date_to = StrOf(StrDateB)] }

VariantNext ==
    \/ \E r \in VariantRequests : Call(r)
    \/ \E w \in WaitResults : Gate(w)
    \/ \E f \in BOOLEAN : Lookup(f)
    \/ \E a \in Answers : Attempt(a)
    \/ Return

VariantSpec == Init /\ [][VariantNext]_vars

\* search has returned what its cache lookup found.
ServedFromCache ==
    /\ pc = "done"
    /\ outcome.kind = "payload"
    /\ gets = 1
    /\ attempts = 0

\* C17: a payload that search returns from the cache was stored by an
\* earlier search with the same whole request: the entry returned is the
\* one written by the latest set under its key, and the search that made
\* that set had the same text, engines, limit and offset and the same
\* date_from, date_to, language and sort.
C17_CachedPayloadIsForSameRequest ==
    ServedFromCache =>
        /\ served[KeyOf(req)].has
        /\ served[KeyOf(req)].payload = outcome.payload
        /\ served[KeyOf(req)].req = req

\* The set of the engines that a request names: empty without a filter.
EngineSet(a) ==
    IF a.engines_given THEN { a.engines[i] : i \in 1..Len(a.engines) } ELSE {}

\* C18: the cache key tells requests apart: two valid requests that differ
\* in text, in the set of their engines, in limit or in offset have
\* different keys, also when the text or an engine id contains ":" or ",".
C18_KeyIsInjective ==
    ProbedKey =>
        \A b \in KeyArgs :
            (\/ b.text # probe.args.text
             \/ EngineSet(b) # EngineSet(probe.args)
             \/ b.limit # probe.args.limit
             \/ b.offset # probe.args.offset)
            => GenerateCacheKey(b.text, b.engines_given, b.engines, b.limit, b.offset)
                 # probe.result

=============================================================================
